---- MODULE Spec2Model ----
(***************************************************************************)
(* Model of science-worker/main.py: a FastAPI application with two GET     *)
(* routes, /health and /, each returning a fixed dict.                     *)
(*                                                                         *)
(* The program's own state is the application object `app` (its route      *)
(* table).  A request is received, routed by method and path, its endpoint *)
(* function is called, the returned dict is rendered as a JSON response,   *)
(* and the response is sent.  Requests of several clients interleave at    *)
(* each of these steps.                                                    *)
(***************************************************************************)
EXTENDS Integers, Sequences, FiniteSets, TLC

\* Number of clients that may have a request in flight at the same time.
MaxClients == 2

Clients == 1..MaxClients

VARIABLES
    routes,     \* app.router.routes, the route table of the application
    pc,         \* pc[c]: where the handling of client c's request stands
    req,        \* req[c]: the request of client c being handled
    handler,    \* handler[c]: the endpoint the request was routed to
    resp,       \* resp[c]: the response built for client c
    delivered   \* the answers sent so far to GET /health and GET /

vars == << routes, pc, req, handler, resp, delivered >>

----------------------------------------------------------------------------
(* Requests the clients send. *)

Methods == {"GET", "POST"}
Paths == {"/", "/health", "/health/", "/docs", "/nope"}
Queries == {"", "foo=bar"}
Headers == {"", "accept: text/html"}
Bodies == {"", "{}"}

\* What the server keeps of a request while it handles it.
Requests == [method : Methods, path : Paths, query : Queries]

NoRequest == [method |-> "", path |-> "", query |-> ""]

----------------------------------------------------------------------------
(* The endpoint functions.  A Python dict is a sequence of <<key, value>>  *)
(* pairs in insertion order; each call builds a new one.                   *)

\* health_check with the service name misspelt.
health_check_typo == << <<"status", "ok">>, <<"service", "science_worker">> >>

\* health_check reporting "starting" until a first answer has been sent.
health_check_uptime ==
    << <<"status", IF delivered = {} THEN "starting" ELSE "ok">>,
       <<"service", "science-worker">> >>

health_check == << <<"status", "ok">>, <<"service", "science-worker">> >>

\* read_root with a member added to the greeting.
read_root_extra ==
    << <<"message", "Zone14 Science Worker">>, <<"version", "1">> >>

read_root == << <<"message", "Zone14 Science Worker">> >>

----------------------------------------------------------------------------
(* app = FastAPI(): the application object.  With no arguments the         *)
(* constructor registers the framework's documentation routes              *)
(* (openapi_url="/openapi.json", docs_url="/docs", redoc_url="/redoc",     *)
(* and the OAuth2 redirect page of the docs); these are plain routes,      *)
(* which answer GET and HEAD.                                              *)

FastAPI ==
    << [path |-> "/openapi.json", methods |-> {"GET", "HEAD"}, endpoint |-> "openapi"],
       [path |-> "/docs", methods |-> {"GET", "HEAD"}, endpoint |-> "swagger_ui_html"],
       [path |-> "/docs/oauth2-redirect", methods |-> {"GET", "HEAD"},
        endpoint |-> "swagger_ui_redirect"],
       [path |-> "/redoc", methods |-> {"GET", "HEAD"}, endpoint |-> "redoc_html"] >>

\* A route registered for POST in place of GET.
get_post(table, path, endpoint) ==
    Append(table, [path |-> path, methods |-> {"POST"}, endpoint |-> endpoint])

\* @app.get(path): appends a route for method GET only to the route table.
get(table, path, endpoint) ==
    Append(table, [path |-> path, methods |-> {"GET"}, endpoint |-> endpoint])

\* The route table once the module is imported (lines 3, 5 and 9).
app == get(get(FastAPI, "/health", "health_check"), "/", "read_root")

----------------------------------------------------------------------------
(* Responses.  A body is the sequence of the tokens written on the wire.   *)

Response(status, ctype, location, body) ==
    [status |-> status, ctype |-> ctype, location |-> location, body |-> body]

NoResponse == Response(0, "", "", << >>)

RECURSIVE dumps_members(_)
\* The members of a JSON object, separators (",", ":"), in the dict's order.
dumps_members(content) ==
    IF content = << >> THEN << >>
    ELSE LET m == << content[1][1], ":", content[1][2] >>
         IN  IF Len(content) = 1 THEN m
             ELSE m \o << "," >> \o dumps_members(Tail(content))

\* A JSON response labelled as plain text.
JSONResponse_text(content, status_code) ==
    Response(status_code, "text/plain; charset=utf-8", "",
             << "{" >> \o dumps_members(content) \o << "}" >>)

\* JSONResponse(content, status_code): renders the dict as a JSON object.
JSONResponse(content, status_code) ==
    Response(status_code, "application/json", "",
             << "{" >> \o dumps_members(content) \o << "}" >>)

\* HTMLResponse(page): the pages of the framework's documentation routes.
HTMLResponse(page) ==
    Response(200, "text/html; charset=utf-8", "", << "<!DOCTYPE html>", page >>)

\* RedirectResponse(url): status 307, no body.
RedirectResponse(url) == Response(307, "", url, << >>)

\* An HTTPException raised while routing is answered as {"detail": <phrase>}.
http_exception(status_code, detail) ==
    JSONResponse(<< <<"detail", detail>> >>, status_code)

----------------------------------------------------------------------------
(* Routing: the first route whose path and method both match handles the   *)
(* request; failing that, the first route whose path alone matches answers *)
(* 405; failing that, a route that matches the path with its trailing      *)
(* slash added or removed causes a redirect; otherwise 404.                *)

\* Matching on the path alone.
matches_path_only(route, method, path) ==
    IF route.path # path THEN "NONE" ELSE "FULL"

matches(route, method, path) ==
    IF route.path # path THEN "NONE"
    ELSE IF method \in route.methods THEN "FULL"
    ELSE "PARTIAL"

First(table, method, path, kinds) ==
    LET hits == {i \in 1..Len(table) : matches(table[i], method, path) \in kinds}
    IN  IF hits = {} THEN 0 ELSE CHOOSE i \in hits : \A j \in hits : i <= j

\* The path with a trailing slash removed if it has one, added if not.
redirect_path(path) ==
    CASE path = "/health/" -> "/health"
      [] path = "/health" -> "/health/"
      [] path = "/docs" -> "/docs/"
      [] path = "/nope" -> "/nope/"
      [] OTHER -> path

Router(table, method, path) ==
    LET full == First(table, method, path, {"FULL"})
        partial == First(table, method, path, {"PARTIAL"})
        slash == First(table, method, redirect_path(path), {"FULL", "PARTIAL"})
    IN  IF full # 0 THEN
            [kind |-> "endpoint", endpoint |-> table[full].endpoint,
             response |-> NoResponse]
        ELSE IF partial # 0 THEN
            [kind |-> "response", endpoint |-> "",
             response |-> http_exception(405, "Method Not Allowed")]
        ELSE IF path # "/" /\ slash # 0 THEN
            [kind |-> "response", endpoint |-> "",
             response |-> RedirectResponse(redirect_path(path))]
        ELSE
            [kind |-> "response", endpoint |-> "",
             response |-> http_exception(404, "Not Found")]

\* Calling a route's endpoint and turning what it returns into a response:
\* a dict returned by a handler of the service becomes a 200 JSON response.
\* The framework's own endpoints answer with the schema document (of which
\* only the leading "openapi" member is kept here) or with an HTML page.
Call(endpoint) ==
    CASE endpoint = "health_check" -> JSONResponse(health_check, 200)
      [] endpoint = "read_root" -> JSONResponse(read_root, 200)
      [] endpoint = "openapi" -> JSONResponse(<< <<"openapi", "3.1.0">> >>, 200)
      [] OTHER -> HTMLResponse(endpoint)

----------------------------------------------------------------------------
(* The state after the module is imported, and the steps of a request. *)

Init ==
    /\ routes = app
    /\ pc = [c \in Clients |-> "idle"]
    /\ req = [c \in Clients |-> NoRequest]
    /\ handler = [c \in Clients |-> ""]
    /\ resp = [c \in Clients |-> NoResponse]
    /\ delivered = {}

\* The two operations the service defines.
Defined(r) == r.method = "GET" /\ r.path \in {"/health", "/"}

\* The server accepts a request of client c.  No route of the application
\* declares a parameter, so the headers and the body sent with the request
\* are never read: they stay with the connection.
Receive(c, queries) ==
    /\ pc[c] = "idle"
    /\ \E r \in Requests, h \in Headers, b \in Bodies :
          /\ r.query \in queries
          /\ req' = [req EXCEPT ![c] = r]
    /\ pc' = [pc EXCEPT ![c] = "routing"]
    /\ UNCHANGED << routes, handler, resp, delivered >>

\* The router looks the request up in the route table.
Dispatch(c) ==
    /\ pc[c] = "routing"
    /\ LET out == Router(routes, req[c].method, req[c].path)
       IN  IF out.kind = "endpoint"
           THEN /\ handler' = [handler EXCEPT ![c] = out.endpoint]
                /\ pc' = [pc EXCEPT ![c] = "endpoint"]
                /\ resp' = resp
           ELSE /\ resp' = [resp EXCEPT ![c] = out.response]
                /\ pc' = [pc EXCEPT ![c] = "responding"]
                /\ handler' = handler
    /\ UNCHANGED << routes, req, delivered >>

\* Running the endpoint kept in one place shared by all requests: the
\* endpoint of any request that is waiting to run may be the one called.
RunEndpoint_shared(c) ==
    /\ pc[c] = "endpoint"
    /\ \E d \in Clients :
          /\ pc[d] = "endpoint"
          /\ resp' = [resp EXCEPT ![c] = Call(handler[d])]
    /\ pc' = [pc EXCEPT ![c] = "responding"]
    /\ UNCHANGED << routes, req, handler, delivered >>

\* An endpoint that drops the last route of the table when it runs.
RunEndpoint_unregister(c) ==
    /\ pc[c] = "endpoint"
    /\ resp' = [resp EXCEPT ![c] = Call(handler[c])]
    /\ pc' = [pc EXCEPT ![c] = "responding"]
    /\ routes' = IF routes = << >> THEN routes ELSE SubSeq(routes, 1, Len(routes) - 1)
    /\ UNCHANGED << req, handler, delivered >>

\* Endpoints run one at a time, each waiting until no other is due to run.
RunEndpoint_exclusive(c) ==
    /\ pc[c] = "endpoint"
    /\ \A d \in Clients \ {c} : pc[d] # "endpoint"
    /\ resp' = [resp EXCEPT ![c] = Call(handler[c])]
    /\ pc' = [pc EXCEPT ![c] = "responding"]
    /\ UNCHANGED << routes, req, handler, delivered >>

\* The endpoint function runs and its result is rendered.
RunEndpoint(c) ==
    /\ pc[c] = "endpoint"
    /\ resp' = [resp EXCEPT ![c] = Call(handler[c])]
    /\ pc' = [pc EXCEPT ![c] = "responding"]
    /\ UNCHANGED << routes, req, handler, delivered >>

\* The response is written to the client and the request is over.
Send(c) ==
    /\ pc[c] = "responding"
    /\ delivered' =
         IF Defined(req[c])
         THEN delivered \cup {[method |-> req[c].method, path |-> req[c].path,
                               response |-> resp[c]]}
         ELSE delivered
    /\ pc' = [pc EXCEPT ![c] = "idle"]
    /\ req' = [req EXCEPT ![c] = NoRequest]
    /\ handler' = [handler EXCEPT ![c] = ""]
    /\ resp' = [resp EXCEPT ![c] = NoResponse]
    /\ UNCHANGED routes

\* The steps of the handling of a request, once it is received.
Handle(c) == Dispatch(c) \/ RunEndpoint(c) \/ Send(c)

Next ==
    \E c \in Clients :
        \/ Receive(c, Queries)
        \/ Handle(c)

Spec == Init /\ [][Next]_vars

\* The same steps, for requests that carry no query string.
LiveNext ==
    \E c \in Clients :
        \/ Receive(c, {""})
        \/ Handle(c)

\* The handling of every request that has been received keeps being
\* scheduled; no client is obliged to send a request.
Fairness == \A c \in Clients : WF_vars(Handle(c))

LiveSpec == Init /\ [][LiveNext]_vars /\ Fairness

----------------------------------------------------------------------------
(* What a client reads from a response. *)

\* The body is a JSON object: "{", members key ":" value joined by ",", "}".
IsJSONObject(body) ==
    /\ Len(body) >= 2
    /\ body[1] = "{"
    /\ body[Len(body)] = "}"
    /\ \/ Len(body) = 2
       \/ /\ (Len(body) - 1) % 4 = 0
          /\ \A i \in 1..((Len(body) - 1) \div 4) :
                /\ body[4 * i - 1] = ":"
                /\ (4 * i + 1 < Len(body)) => body[4 * i + 1] = ","

\* The mapping a JSON object denotes (the last of equal keys wins).
loads(body) ==
    LET n == (Len(body) - 1) \div 4
        last(k) == CHOOSE i \in 1..n :
                      /\ body[4 * i - 2] = k
                      /\ \A j \in 1..n : body[4 * j - 2] = k => j <= i
    IN  [k \in {body[4 * i - 2] : i \in 1..n} |-> body[4 * last(k)]]

HealthPayload == [status |-> "ok", service |-> "science-worker"]

RootPayload == [message |-> "Zone14 Science Worker"]

Contract(path) == IF path = "/health" THEN HealthPayload ELSE RootPayload

Answering(c) == pc[c] = "responding"

GetHealth(r) == r.method = "GET" /\ r.path = "/health"

GetRoot(r) == r.method = "GET" /\ r.path = "/"

OwnHandlers == {"health_check", "read_root"}

FrameworkPages == {FastAPI[i].endpoint : i \in 1..Len(FastAPI)}

----------------------------------------------------------------------------
(* C1: every answer to GET /health, whatever the query string, headers and *)
(* body of the request, has status 200 and a body that denotes exactly the *)
(* mapping {"status": "ok", "service": "science-worker"}.                  *)
C1_HealthContract ==
    \A c \in Clients :
        (Answering(c) /\ GetHealth(req[c])) =>
            /\ resp[c].status = 200
            /\ IsJSONObject(resp[c].body)
            /\ loads(resp[c].body) = HealthPayload

\* GET /health?foo=bar is being answered with the health payload.
C1_Witness ==
    \E c \in Clients :
        /\ Answering(c) /\ GetHealth(req[c]) /\ req[c].query = "foo=bar"
        /\ resp[c].status = 200
        /\ loads(resp[c].body) = HealthPayload

(* C2: every answer to GET /, whatever the query string, headers and body  *)
(* of the request, has status 200 and a body that denotes exactly the      *)
(* mapping {"message": "Zone14 Science Worker"}.                           *)
C2_RootContract ==
    \A c \in Clients :
        (Answering(c) /\ GetRoot(req[c])) =>
            /\ resp[c].status = 200
            /\ IsJSONObject(resp[c].body)
            /\ loads(resp[c].body) = RootPayload

\* GET /?foo=bar is being answered with the greeting.
C2_Witness ==
    \E c \in Clients :
        /\ Answering(c) /\ GetRoot(req[c]) /\ req[c].query = "foo=bar"
        /\ resp[c].status = 200
        /\ loads(resp[c].body) = RootPayload

(* C3: while requests of other clients are in flight, at whatever step,    *)
(* a request to GET /health or GET / runs the endpoint of its own route    *)
(* and its answer is the whole payload of that route, never the payload of *)
(* the other route and never a part or a mixture of the two.               *)
C3_NoInterference ==
    \A c, d \in Clients :
        (c # d /\ pc[d] # "idle" /\ Defined(req[c])) =>
            /\ pc[c] \in {"endpoint", "responding"} =>
                  handler[c] = (IF req[c].path = "/health" THEN "health_check"
                                ELSE "read_root")
            /\ Answering(c) =>
                  /\ IsJSONObject(resp[c].body)
                  /\ DOMAIN loads(resp[c].body) = DOMAIN Contract(req[c].path)
                  /\ \A k \in DOMAIN Contract(req[c].path) :
                        loads(resp[c].body)[k] = Contract(req[c].path)[k]

\* GET /health and GET / are being answered at the same time, each with
\* its own payload.
C3_Witness ==
    \E c, d \in Clients :
        /\ c # d /\ Answering(c) /\ Answering(d)
        /\ GetHealth(req[c]) /\ loads(resp[c].body) = HealthPayload
        /\ GetRoot(req[d]) /\ loads(resp[d].body) = RootPayload

(* C4: all the answers ever sent to GET /health are the same response,     *)
(* and so are all the answers ever sent to GET /; an answer being sent now *)
(* equals the ones sent before, whatever requests were handled in between. *)
C4_Repeatable ==
    \A a \in delivered :
        /\ \A b \in delivered :
              (a.method = b.method /\ a.path = b.path) => a.response = b.response
        /\ \A c \in Clients :
              (Answering(c) /\ req[c].method = a.method /\ req[c].path = a.path) =>
                  resp[c] = a.response

\* Both endpoints have been answered before, and GET /health is being
\* answered once more.
C4_Witness ==
    /\ \E a, b \in delivered : a.path = "/health" /\ b.path = "/"
    /\ \E c \in Clients : Answering(c) /\ GetHealth(req[c])

(* C5: handling a request leaves the service's state alone: the route      *)
(* table of the application is in every reachable state the one built when *)
(* the module was imported.                                                *)
C5_NoSideEffects == routes = app

\* Both endpoints have been answered and another request has run its endpoint.
C5_Witness ==
    /\ \E a, b \in delivered : a.path = "/health" /\ b.path = "/"
    /\ \E c \in Clients : Answering(c) /\ handler[c] \in OwnHandlers
    /\ routes = app

(* C6: a request to GET /health or GET / is never answered with an error:  *)
(* the status of its response is 200, not a 4xx or a 5xx.                  *)
C6_NoErrorStatus ==
    \A c \in Clients :
        (Answering(c) /\ Defined(req[c])) =>
            /\ resp[c].status \notin 400..599
            /\ resp[c].status = 200

\* A defined operation is answered 200 while another request gets an error.
C6_Witness ==
    \E c, d \in Clients :
        /\ Answering(c) /\ Defined(req[c]) /\ resp[c].status = 200
        /\ Answering(d) /\ resp[d].status \in 400..599

(* C7, as claimed: a request with any method and path other than GET       *)
(* /health and GET / gets the framework's not-found or method-not-allowed  *)
(* answer.                                                                 *)
C7_OnlyTwoRoutes ==
    \A c \in Clients :
        (Answering(c) /\ ~Defined(req[c])) => resp[c].status \in {404, 405}

(* C7, amended: the service adds exactly two routes, GET /health ->        *)
(* health_check and GET / -> read_root, to those the framework registers   *)
(* itself; only GET /health and GET / requests reach these two handlers,   *)
(* and every other request is answered by the framework: 404, 405, a 307   *)
(* redirect to the path without its trailing slash, or one of the          *)
(* framework's own documentation pages.                                    *)
C7_TwoOwnHandlers ==
    /\ {routes[i] : i \in 1..Len(routes)} \ {FastAPI[i] : i \in 1..Len(FastAPI)}
          = { [path |-> "/health", methods |-> {"GET"}, endpoint |-> "health_check"],
              [path |-> "/", methods |-> {"GET"}, endpoint |-> "read_root"] }
    /\ \A c \in Clients :
          (pc[c] \in {"endpoint", "responding"} /\ handler[c] \in OwnHandlers) =>
              Defined(req[c])
    /\ \A c \in Clients :
          (Answering(c) /\ ~Defined(req[c])) =>
              \/ handler[c] = "" /\ resp[c].status \in {404, 405, 307}
              \/ handler[c] \in FrameworkPages /\ resp[c].status = 200

\* GET /docs is answered 200 by the framework's page while POST /health
\* gets 405.
C7_Witness ==
    \E c, d \in Clients :
        /\ Answering(c) /\ req[c].method = "GET" /\ req[c].path = "/docs"
        /\ resp[c].status = 200 /\ handler[c] = "swagger_ui_html"
        /\ Answering(d) /\ req[d].method = "POST" /\ req[d].path = "/health"
        /\ resp[d].status = 405

(* C8: every answer to GET /health and GET / has Content-Type              *)
(* application/json and a body that is a JSON object.                      *)
C8_JSONContentType ==
    \A c \in Clients :
        (Answering(c) /\ Defined(req[c])) =>
            /\ resp[c].ctype = "application/json"
            /\ IsJSONObject(resp[c].body)

\* GET / is answered as JSON while GET /docs is answered as HTML.
C8_Witness ==
    \E c, d \in Clients :
        /\ Answering(c) /\ GetRoot(req[c]) /\ resp[c].ctype = "application/json"
        /\ Answering(d) /\ req[d].path = "/docs" /\ resp[d].ctype # "application/json"

====
